---- MODULE Spec2Model ----
(***************************************************************************)
(* Grain storage bin digital twin (DT_V1_2.py): the layered inventory kept *)
(* under users/{user}/{bin}/inventory in the remote database, the add-layer*)
(* form handler, the FIFO unload and the moisture heat map.                *)
(*                                                                         *)
(* Units.  Masses are whole tonnes, test weights whole kg/m3, the bin      *)
(* diameter whole metres.  Heights are fixed-point millimetres, rounded    *)
(* down; the source computes them in binary floating point.                *)
(***************************************************************************)
EXTENDS Integers, Sequences, FiniteSets, TLC

VARIABLES
    db,            \* the records stored under the selected (user, bin) key
    inventory_df,  \* the module-level name inventory_df when a script run ends
    bin_fig,       \* the figure drawn by the last script run
    bin_height,    \* the "Bin Height" input of the page
    last,          \* what the last script run was asked and what it reported
    pc,            \* concurrent callers: position of each caller in unload_grain
    req,           \* concurrent callers: mass_to_unload of the call in progress
    snap,          \* concurrent callers: the inventory_df the call fetched
    writes         \* concurrent callers: the last two PUTs the database accepted, in order

vars == <<db, inventory_df, bin_fig, bin_height, last, pc, req, snap, writes>>

-----------------------------------------------------------------------------
(* Bounds of the model *)

MaxLayers == 2
MaxMass == 3
MaxUnload == 4
ConcMaxLayers == 2
ConcMaxMass == 2
ConcMaxUnload == 1
ProfMaxLayers == 3
ProfMaxLayerHeight == 2
ProfMaxBinHeight == 3

(* Program constants *)

bin_diameter == 10
Resolution == 100

BinHeightMm == 20 * 1000

TestWeights == {0, 720, 750}
Moistures == {14}
ProfMoistures == {14, 18}
Commodities == {"Wheat"}
Callers == {1, 2}

-----------------------------------------------------------------------------
(* Geometry and rows *)

\* pi * (diameter / 2) ** 2 in square decimetres, rounded down.
CrossSectionDm2(diameter) == (314159 * diameter * diameter) \div 4000

\* mass * 1000 / (test_weight * pi * (diameter / 2) ** 2), in millimetres.
HeightOf(mass, test_weight, diameter) ==
    (mass * 100000000) \div (test_weight * CrossSectionDm2(diameter))

new_grain_data(commodity, mass, test_weight, moisture_content, diameter) ==
    [ Date |-> "now",
      Commodity |-> commodity,
      Mass_tonnes |-> mass,
      Test_Weight_kg_m3 |-> test_weight,
      Moisture_Content_percent |-> moisture_content,
      Height_m |-> HeightOf(mass, test_weight, diameter) ]

RECURSIVE SumMass(_)
SumMass(rows) ==
    IF rows = <<>> THEN 0 ELSE rows[1].Mass_tonnes + SumMass(Tail(rows))

SeqsUpTo(S, n) == UNION { [1..k -> S] : k \in 0..n }

\* Records a bin can hold: rows whose height was computed for this bin.
StoredRows(maxMass, weights) ==
    { new_grain_data(c, m, tw, mc, bin_diameter) :
        c \in Commodities, m \in 0..maxMass, tw \in weights \ {0}, mc \in Moistures }

-----------------------------------------------------------------------------
(* Persistence gateway *)

\* fetch_inventory_data: the stored rows, or an empty frame when the request
\* fails or nothing is stored.  An empty frame has no columns.
fetch_inventory_data(stored, ok) == IF ok THEN stored ELSE <<>>

\* A PATCH in place of the PUT: the children sent are written, the others stay.
update_inventory_data_patch(stored, inventory_data, ok) ==
    IF ok
    THEN [i \in 1..(IF Len(stored) > Len(inventory_data) THEN Len(stored)
                    ELSE Len(inventory_data)) |->
            IF i <= Len(inventory_data) THEN inventory_data[i] ELSE stored[i]]
    ELSE stored

\* update_inventory_data: PUT replaces what is stored; a refused PUT changes nothing.
update_inventory_data(stored, inventory_data, ok) ==
    IF ok THEN inventory_data ELSE stored

-----------------------------------------------------------------------------
(* unload_grain *)

\* new_row with the height of the whole row kept.
new_row_stale_height(row, remaining_mass, diameter) ==
    [row EXCEPT !.Mass_tonnes = row.Mass_tonnes - remaining_mass]

\* The partially consumed row: mass reduced, height recomputed.
new_row(row, remaining_mass, diameter) ==
    [row EXCEPT !.Mass_tonnes = row.Mass_tonnes - remaining_mass,
                !.Height_m = HeightOf(row.Mass_tonnes - remaining_mass,
                                      row.Test_Weight_kg_m3, diameter)]

\* The for loop over inventory_df.iterrows(), from row i on.
RECURSIVE preserved_rows(_, _, _, _, _)
preserved_rows(rows, i, remaining_mass, preserved, diameter) ==
    IF i > Len(rows) THEN preserved
    ELSE IF remaining_mass <= 0
         THEN preserved_rows(rows, i + 1, remaining_mass,
                             Append(preserved, rows[i]), diameter)
    ELSE IF remaining_mass >= rows[i].Mass_tonnes
         THEN preserved_rows(rows, i + 1, remaining_mass - rows[i].Mass_tonnes,
                             preserved, diameter)
    ELSE Append(preserved, new_row(rows[i], remaining_mass, diameter))  \* break

\* new_inventory with a row consumed whole only when more than its mass remains.
RECURSIVE preserved_rows_strict(_, _, _, _, _)
preserved_rows_strict(rows, i, remaining_mass, preserved, diameter) ==
    IF i > Len(rows) THEN preserved
    ELSE IF remaining_mass <= 0
         THEN preserved_rows_strict(rows, i + 1, remaining_mass,
                                    Append(preserved, rows[i]), diameter)
    ELSE IF remaining_mass > rows[i].Mass_tonnes
         THEN preserved_rows_strict(rows, i + 1, remaining_mass - rows[i].Mass_tonnes,
                                    preserved, diameter)
    ELSE Append(preserved, new_row(rows[i], remaining_mass, diameter))

new_inventory_strict(rows, mass_to_unload, diameter) ==
    preserved_rows_strict(rows, 1, mass_to_unload, <<>>, diameter)

new_inventory(rows, mass_to_unload, diameter) ==
    preserved_rows(rows, 1, mass_to_unload, <<>>, diameter)

\* What unload_grain does with the frame it fetched: the outcome it reports and
\* the records it asks the gateway to store.
unload_grain(fetched, mass_to_unload, diameter) ==
    IF fetched = <<>>
    THEN [outcome |-> "KeyError", shortfall |-> 0, put |-> FALSE, records |-> <<>>]
    ELSE IF mass_to_unload > SumMass(fetched)
    THEN [outcome |-> "warning", shortfall |-> mass_to_unload - SumMass(fetched),
          put |-> FALSE, records |-> <<>>]
    ELSE [outcome |-> "returned", shortfall |-> 0, put |-> TRUE,
          records |-> new_inventory(fetched, mass_to_unload, diameter)]

-----------------------------------------------------------------------------
(* create_bin_visualization *)

\* round() in place of int().
band_index_round(grain_height, height) ==
    (2 * grain_height * Resolution + height) \div (2 * height)

\* int((grain_height / height) * 100) for a non-negative grain height.
band_index(grain_height, height) == (grain_height * Resolution) \div height

\* inventory['Height_m'].cumsum()[i - 1], rows counted from 1 here.
RECURSIVE grain_heights(_, _)
grain_heights(inventory, i) ==
    IF i = 0 THEN 0 ELSE inventory[i].Height_m + grain_heights(inventory, i - 1)

Bands == 0..(Resolution - 1)

\* moisture_heatmap[start_index:end_index, :] = value
slice_assign(heatmap, start_index, end_index, value) ==
    [b \in Bands |-> IF start_index <= b /\ b < end_index THEN value ELSE heatmap[b]]

\* The for loop over the layers, from layer i on.
RECURSIVE moisture_heatmap(_, _, _, _)
moisture_heatmap(heatmap, inventory, i, height) ==
    IF i > Len(inventory) THEN heatmap
    ELSE moisture_heatmap(
            slice_assign(heatmap,
                         IF i > 1 THEN band_index(grain_heights(inventory, i - 1), height)
                                  ELSE 0,
                         band_index(grain_heights(inventory, i), height),
                         inventory[i].Moisture_Content_percent),
            inventory, i + 1, height)

NoFig == [drawn |-> FALSE, surfacecolor |-> [b \in Bands |-> 0]]

create_bin_visualization(diameter, height, inventory) ==
    IF inventory # <<>>
    THEN [drawn |-> TRUE,
          surfacecolor |-> moisture_heatmap([b \in Bands |-> 0], inventory, 1, height)]
    ELSE NoFig

-----------------------------------------------------------------------------
(* One run of the script: the page is re-executed from the top, in a new   *)
(* namespace, on every interaction; at most one button is pressed per run. *)

\* The binding of the name inventory_df when the form handler runs: the script
\* assigns it first on the line that reads it and next after both handlers.
Unbound == [bound |-> FALSE, rows |-> <<>>]
FreshNamespace == Unbound

NoRequest ==
    [op |-> "none", before |-> <<>>, commodity |-> "Wheat", mass |-> 0,
     test_weight |-> 0, moisture |-> 0, outcome |-> "none", shortfall |-> 0,
     put |-> FALSE, fetched |-> FALSE, stored |-> FALSE]

\* The guard with >= in place of >.
test_weight_valid_ge(test_weight) == test_weight >= 0

\* "if test_weight > 0" of the form handler.
test_weight_valid(test_weight) == test_weight > 0

\* The end of the script: fetch the latest inventory to display.
ShowInventory(stored) ==
    \E getOk \in BOOLEAN :
        inventory_df' = [bound |-> TRUE, rows |-> fetch_inventory_data(stored, getOk)]

\* An uncaught exception ends the run where it is raised.
RunAborted == inventory_df' = Unbound

\* The body of "if submit_button": what the form handler reports and the
\* records it asks the gateway to store, given the binding ns of inventory_df.
inventory_form(ns, commodity, mass, test_weight, moisture_content, diameter) ==
    IF test_weight_valid(test_weight)
    THEN IF ~ns.bound
         THEN [outcome |-> "NameError", put |-> FALSE, records |-> <<>>]
         ELSE [outcome |-> "success", put |-> TRUE,
               records |-> Append(ns.rows,
                                  new_grain_data(commodity, mass, test_weight,
                                                 moisture_content, diameter))]
    ELSE [outcome |-> "error", put |-> FALSE, records |-> <<>>]

\* "Add Grain" pressed.
SubmitAdd(commodity, mass, test_weight, moisture_content) ==
    LET r == inventory_form(FreshNamespace, commodity, mass, test_weight,
                            moisture_content, bin_diameter)
        asked == [NoRequest EXCEPT !.op = "add", !.before = db,
                                   !.commodity = commodity, !.mass = mass,
                                   !.test_weight = test_weight,
                                   !.moisture = moisture_content,
                                   !.outcome = r.outcome, !.put = r.put]
    IN
    /\ pc = [c \in Callers |-> "idle"]
    /\ IF r.put
       THEN \E putOk \in BOOLEAN :
                /\ db' = update_inventory_data(db, r.records, putOk)
                /\ last' = [asked EXCEPT !.stored = putOk]
       ELSE /\ db' = db
            /\ last' = asked
    /\ IF r.outcome = "NameError" THEN RunAborted ELSE ShowInventory(db')
    /\ UNCHANGED <<bin_fig, bin_height, pc, req, snap, writes>>

\* "Unload Grain" pressed.
PressUnload(mass_to_unload) ==
    \E fetchOk \in BOOLEAN :
    LET r == unload_grain(fetch_inventory_data(db, fetchOk), mass_to_unload, bin_diameter)
        asked == [NoRequest EXCEPT !.op = "unload", !.before = db,
                                   !.mass = mass_to_unload, !.fetched = fetchOk,
                                   !.outcome = r.outcome, !.shortfall = r.shortfall,
                                   !.put = r.put]
    IN
    /\ pc = [c \in Callers |-> "idle"]
    /\ IF r.put
       THEN \E putOk \in BOOLEAN :
                /\ db' = update_inventory_data(db, r.records, putOk)
                /\ last' = [asked EXCEPT !.stored = putOk]
       ELSE /\ db' = db
            /\ last' = asked
    /\ IF r.outcome = "KeyError" THEN RunAborted ELSE ShowInventory(db')
    /\ UNCHANGED <<bin_fig, bin_height, pc, req, snap, writes>>

\* Any other interaction: the script runs with no button pressed.
Rerun ==
    /\ pc = [c \in Callers |-> "idle"]
    /\ last' = [NoRequest EXCEPT !.op = "view", !.before = db]
    /\ db' = db
    /\ ShowInventory(db)
    /\ UNCHANGED <<bin_fig, bin_height, pc, req, snap, writes>>

Ledgers == SeqsUpTo(StoredRows(MaxMass, TestWeights), MaxLayers)

Init ==
    /\ db \in Ledgers
    /\ inventory_df = [bound |-> TRUE, rows |-> db]
    /\ bin_height = BinHeightMm
    /\ bin_fig = NoFig
    /\ last = NoRequest
    /\ pc = [c \in Callers |-> "idle"]
    /\ req = [c \in Callers |-> 0]
    /\ snap = [c \in Callers |-> <<>>]
    /\ writes = <<>>

Next ==
    \/ \E commodity \in Commodities, mass \in 0..MaxMass, test_weight \in TestWeights,
          moisture_content \in Moistures :
            SubmitAdd(commodity, mass, test_weight, moisture_content)
    \/ \E mass_to_unload \in 0..MaxUnload : PressUnload(mass_to_unload)
    \/ Rerun

Spec == Init /\ [][Next]_vars

-----------------------------------------------------------------------------
(* Two callers on the same (user, bin) key.  Each request to the database  *)
(* is one step; only the requests that reach the database are tracked.     *)

\* The log of accepted PUTs keeps the two most recent.
Logged(log, write) ==
    IF Len(log) < 2 THEN Append(log, write) ELSE <<log[2], write>>

ConcLedgers == SeqsUpTo(StoredRows(ConcMaxMass, {720}), ConcMaxLayers)

InitConc ==
    /\ db \in ConcLedgers
    /\ inventory_df = Unbound
    /\ bin_height = BinHeightMm
    /\ bin_fig = NoFig
    /\ last = NoRequest
    /\ pc = [c \in Callers |-> "idle"]
    /\ req = [c \in Callers |-> 0]
    /\ snap = [c \in Callers |-> <<>>]
    /\ writes = <<>>

\* Caller c presses "Unload Grain": unload_grain is entered.
CallUnload(c, mass_to_unload) ==
    /\ pc[c] = "idle"
    /\ pc' = [pc EXCEPT ![c] = "fetch"]
    /\ req' = [req EXCEPT ![c] = mass_to_unload]
    /\ UNCHANGED <<db, inventory_df, bin_fig, bin_height, last, snap, writes>>

\* The GET of unload_grain and everything up to its PUT; the call returns
\* here when it raises or warns, and its locals are gone.
FetchStep(c) ==
    /\ pc[c] = "fetch"
    /\ \E fetchOk \in BOOLEAN :
        LET fetched == fetch_inventory_data(db, fetchOk) IN
        IF unload_grain(fetched, req[c], bin_diameter).put
        THEN /\ snap' = [snap EXCEPT ![c] = fetched]
             /\ pc' = [pc EXCEPT ![c] = "put"]
             /\ req' = req
        ELSE /\ snap' = [snap EXCEPT ![c] = <<>>]
             /\ pc' = [pc EXCEPT ![c] = "idle"]
             /\ req' = [req EXCEPT ![c] = 0]
    /\ UNCHANGED <<db, inventory_df, bin_fig, bin_height, last, writes>>

\* The PUT of unload_grain, after which the call returns.
PutStep(c) ==
    /\ pc[c] = "put"
    /\ LET records == unload_grain(snap[c], req[c], bin_diameter).records IN
       \E putOk \in BOOLEAN :
        /\ db' = update_inventory_data(db, records, putOk)
        /\ writes' = IF putOk
                     THEN Logged(writes, [by |-> c, fetched |-> snap[c],
                                          mass |-> req[c], records |-> records])
                     ELSE writes
    /\ pc' = [pc EXCEPT ![c] = "idle"]
    /\ req' = [req EXCEPT ![c] = 0]
    /\ snap' = [snap EXCEPT ![c] = <<>>]
    /\ UNCHANGED <<inventory_df, bin_fig, bin_height, last>>

\* Caller c presses "Add Grain": the form handler, which reads no database.
CallAdd(c, commodity, mass, test_weight, moisture_content) ==
    LET r == inventory_form(FreshNamespace, commodity, mass, test_weight,
                            moisture_content, bin_diameter)
    IN
    /\ pc[c] = "idle"
    /\ IF r.put
       THEN \E putOk \in BOOLEAN :
                /\ db' = update_inventory_data(db, r.records, putOk)
                /\ writes' = IF putOk
                             THEN Logged(writes, [by |-> c, fetched |-> <<>>,
                                                  mass |-> 0, records |-> r.records])
                             ELSE writes
       ELSE UNCHANGED <<db, writes>>
    /\ UNCHANGED <<inventory_df, bin_fig, bin_height, last, pc, req, snap>>

NextConc ==
    \/ \E c \in Callers, mass_to_unload \in 0..ConcMaxUnload : CallUnload(c, mass_to_unload)
    \/ \E c \in Callers : FetchStep(c)
    \/ \E c \in Callers : PutStep(c)
    \/ \E c \in Callers, commodity \in Commodities, mass \in 0..ConcMaxMass,
          test_weight \in TestWeights, moisture_content \in Moistures :
            CallAdd(c, commodity, mass, test_weight, moisture_content)

SpecConc == InitConc /\ [][NextConc]_vars

-----------------------------------------------------------------------------
(* The heat map on its own: the frame and the bin height are drawn from    *)
(* bounded sets, heights in whole metres.                                  *)

ProfRow(height_m, moisture_content) ==
    [ Date |-> "now",
      Commodity |-> "Wheat",
      Mass_tonnes |-> (height_m * 720 * CrossSectionDm2(bin_diameter)) \div 100000,
      Test_Weight_kg_m3 |-> 720,
      Moisture_Content_percent |-> moisture_content,
      Height_m |-> height_m ]

ProfRows == { ProfRow(h, mc) : h \in 0..ProfMaxLayerHeight, mc \in ProfMoistures }

InitProfile ==
    /\ db \in SeqsUpTo(ProfRows, ProfMaxLayers)
    /\ inventory_df = [bound |-> TRUE, rows |-> db]
    /\ bin_height \in 1..ProfMaxBinHeight
    /\ bin_fig = NoFig
    /\ last = NoRequest
    /\ pc = [c \in Callers |-> "idle"]
    /\ req = [c \in Callers |-> 0]
    /\ snap = [c \in Callers |-> <<>>]
    /\ writes = <<>>

\* The "Bin Height" input is set to height and the script draws the inventory.
DrawInventory(height) ==
    /\ bin_height' = height
    /\ bin_fig' = IF inventory_df.rows = <<>> THEN NoFig
                  ELSE create_bin_visualization(bin_diameter, height, inventory_df.rows)
    /\ UNCHANGED <<db, inventory_df, last, pc, req, snap, writes>>

NextProfile == \E height \in 1..ProfMaxBinHeight : DrawInventory(height)

SpecProfile == InitProfile /\ [][NextProfile]_vars

-----------------------------------------------------------------------------
(* Properties.  In Spec, last.before is the stored ledger before the run   *)
(* and db the stored ledger after it.                                      *)

UnloadStored == last.op = "unload" /\ last.stored

\* The height the formula of the data model gives, rounded down to the
\* millimetre: height_m = mass_tonnes * 1000 / (test_weight_kg_m3 * area).
HeightMatches(row, diameter) ==
    LET unit == row.Test_Weight_kg_m3 * CrossSectionDm2(diameter) IN
    /\ row.Height_m * unit <= row.Mass_tonnes * 100000000
    /\ row.Mass_tonnes * 100000000 < (row.Height_m + 1) * unit

\* C1: a successful unload(m) with 0 <= m <= total mass persists a ledger whose
\* total mass is the old total mass minus m.
C1_MassConservation ==
    (UnloadStored /\ last.mass <= SumMass(last.before))
        => SumMass(db) = SumMass(last.before) - last.mass

\* C2: unloading a mass strictly between 0 and the bottom layer's mass leaves
\* the bottom layer in place with its mass reduced by m and its height
\* recomputed, and every layer above it present and unchanged, in order.
C2_PartialConsumption ==
    (UnloadStored /\ last.before # <<>> /\ 0 < last.mass
                  /\ last.mass < last.before[1].Mass_tonnes)
        => /\ Len(db) = Len(last.before)
           /\ db[1].Mass_tonnes = last.before[1].Mass_tonnes - last.mass
           /\ HeightMatches(db[1], bin_diameter)
           /\ db[1] = [last.before[1] EXCEPT !.Mass_tonnes = db[1].Mass_tonnes,
                                             !.Height_m = db[1].Height_m]
           /\ \A i \in 2..Len(last.before) : db[i] = last.before[i]

\* C3: an unload of more than the total mass reports the insufficient inventory
\* with shortfall mass_to_remove - total, issues no save, and leaves the
\* persisted ledger as it was.
C3_OverUnloadRejected ==
    (last.op = "unload" /\ last.fetched /\ last.mass > SumMass(last.before))
        => /\ last.outcome = "warning"
           /\ last.shortfall = last.mass - SumMass(last.before)
           /\ ~last.put
           /\ db = last.before

\* C4 as stated: unloading exactly the bottom layer's mass removes precisely
\* that layer; every other layer stays, unchanged and in order.
C4_ExactRemovalAnyMass ==
    (UnloadStored /\ last.before # <<>>
                  /\ last.mass = last.before[1].Mass_tonnes)
        => db = Tail(last.before)

\* C4 amended: unloading a positive mass equal to exactly the bottom layer's
\* mass removes precisely that layer; every other layer stays, unchanged and
\* in order.
C4_ExactRemoval ==
    (UnloadStored /\ last.before # <<>> /\ last.mass > 0
                  /\ last.mass = last.before[1].Mass_tonnes)
        => db = Tail(last.before)

C4_Witness ==
    /\ UnloadStored
    /\ Len(last.before) >= 2
    /\ last.mass > 0
    /\ last.mass = last.before[1].Mass_tonnes
    /\ db = Tail(last.before)

\* C5: an add-layer with test_weight > 0 persists the previously persisted
\* ledger with exactly one new layer as its last element; on an empty ledger
\* it persists a one-layer ledger.
C5_AddAppends ==
    (last.op = "add" /\ last.test_weight > 0)
        => db = Append(last.before,
                       new_grain_data(last.commodity, last.mass, last.test_weight,
                                      last.moisture, bin_diameter))

\* C6: an add-layer with test_weight <= 0 surfaces an error, adds no layer,
\* issues no save, and leaves the persisted ledger unchanged.
C6_AddRejected ==
    (last.op = "add" /\ last.test_weight <= 0)
        => /\ last.outcome = "error"
           /\ ~last.put
           /\ db = last.before

C6_Witness ==
    /\ last.op = "add"
    /\ last.test_weight <= 0
    /\ last.outcome = "error"
    /\ last.mass > 0
    /\ db # <<>>
    /\ db = last.before

\* C7: unload(0) on a bin with no inventory completes without failure and the
\* ledger stays empty.
C7_UnloadZeroOnEmpty ==
    (last.op = "unload" /\ last.fetched /\ last.before = <<>> /\ last.mass = 0)
        => /\ last.outcome = "returned"
           /\ db = <<>>

\* C8: with a fixed bin diameter, every layer of the persisted ledger has
\* height_m = mass_tonnes * 1000 / (test_weight_kg_m3 * cross-section area).
C8_HeightConsistent ==
    \A i \in 1..Len(db) : HeightMatches(db[i], bin_diameter)

\* A stored unload that resized a layer: the bottom row is not a row of before.
C8_Witness ==
    /\ UnloadStored
    /\ db # <<>>
    /\ \A i \in 1..Len(last.before) : db[1] # last.before[i]
    /\ db[1].Mass_tonnes > 0
    /\ HeightMatches(db[1], bin_diameter)

-----------------------------------------------------------------------------
(* The heat map, under SpecProfile: bin_fig was drawn from inventory_df    *)
(* and bin_height.                                                         *)

RECURSIVE CumulativeHeight(_, _)
CumulativeHeight(rows, i) ==
    IF i = 0 THEN 0 ELSE CumulativeHeight(rows, i - 1) + rows[i].Height_m

\* h / bin_height * resolution rounded down to a whole number.
FloorBand(h) == (h * Resolution) \div bin_height

\* h / bin_height * resolution rounded to the nearest whole number.
RoundBand(h) == (2 * h * Resolution + bin_height) \div (2 * bin_height)

\* Layer i fills exactly the bands from lo[i] up to but excluding hi[i] with its
\* moisture percent, and every other band is 0.
BandsFilled(lo, hi) ==
    LET rows == inventory_df.rows IN
    /\ \A i \in 1..Len(rows) : \A b \in Bands :
          (lo[i] <= b /\ b < hi[i])
              => bin_fig.surfacecolor[b] = rows[i].Moisture_Content_percent
    /\ \A b \in Bands :
          (\A i \in 1..Len(rows) : ~(lo[i] <= b /\ b < hi[i]))
              => bin_fig.surfacecolor[b] = 0

\* C9 as stated: layer i fills exactly the bands from round(start / bin_height *
\* resolution) up to but excluding round(end / bin_height * resolution) with its
\* moisture percent; every band above the occupied height stays 0.
C9_BandsRounded ==
    bin_fig.drawn =>
        LET rows == inventory_df.rows
            lo == [i \in 1..Len(rows) |-> RoundBand(CumulativeHeight(rows, i - 1))]
            hi == [i \in 1..Len(rows) |-> RoundBand(CumulativeHeight(rows, i))]
        IN BandsFilled(lo, hi)

\* C9 amended: the band indices are start / bin_height * resolution and
\* end / bin_height * resolution rounded down, not rounded to the nearest.
C9_BandsTruncated ==
    bin_fig.drawn =>
        LET rows == inventory_df.rows
            lo == [i \in 1..Len(rows) |-> FloorBand(CumulativeHeight(rows, i - 1))]
            hi == [i \in 1..Len(rows) |-> FloorBand(CumulativeHeight(rows, i))]
        IN BandsFilled(lo, hi)

\* Two layers drawn, the top of the grain inside the bin and in a band that
\* rounding and truncation place differently.
C9_Witness ==
    /\ bin_fig.drawn
    /\ Len(inventory_df.rows) >= 2
    /\ LET rows == inventory_df.rows
           mid == FloorBand(CumulativeHeight(rows, 1))
           top == FloorBand(CumulativeHeight(rows, Len(rows)))
       IN /\ 0 < mid /\ mid < top /\ top < Resolution
          /\ RoundBand(CumulativeHeight(rows, Len(rows))) # top
          /\ bin_fig.surfacecolor[mid - 1] = rows[1].Moisture_Content_percent
          /\ bin_fig.surfacecolor[top - 1] # rows[1].Moisture_Content_percent
          /\ bin_fig.surfacecolor[top] = 0

-----------------------------------------------------------------------------
(* Concurrent callers, under SpecConc *)

\* C10: the persisted ledger is exactly the full ledger sent by the save that
\* the database accepted last, whatever the other caller saved before it.
C10_LastWriteWins ==
    writes # <<>> => db = writes[Len(writes)].records

\* Both callers fetched the same ledger, both saved, and the persisted ledger
\* is the second saver's result alone: the first caller's unload is lost.
C10_Witness ==
    /\ Len(writes) = 2
    /\ writes[1].by # writes[2].by
    /\ writes[1].fetched = writes[2].fetched
    /\ writes[1].mass > 0
    /\ writes[2].mass > 0
    /\ db = writes[2].records
    /\ SumMass(db) = SumMass(writes[2].fetched) - writes[2].mass
    /\ SumMass(db) > SumMass(writes[1].fetched) - writes[1].mass - writes[2].mass

====
